---- MODULE Spec2Model ----
(***************************************************************************)
(* Model of the rocket message reconciliation engine                       *)
(* (storage.RocketRepository): per-channel deduplication, out-of-order     *)
(* buffering, in-order application and the post-explosion handling.        *)
(* ProcessMessage runs under the repository's write lock, so one call is   *)
(* one atomic step of the model.                                           *)
(***************************************************************************)
EXTENDS Integers, Sequences, FiniteSets, TLC

VARIABLES
    rockets,            \* r.rockets: channel -> RocketState (exists = FALSE: no entry)
    processedMessages,  \* r.processedMessages: channel -> set of applied numbers
    pendingMessages,    \* r.pendingMessages: channel -> (number -> buffered message)
    applyTrace,         \* history: channel -> the applications, in order: [n, at, kind]
    skipped,            \* history: channel -> numbers dropped by the drain's skip branch
    accepted,           \* history: channel -> numbers a non-duplicate call returned true for
    lastMsg,            \* history: the envelope of the latest ProcessMessage call
    lastOk,             \* history: the value that call returned
    lastOutcome,        \* history: the branch of ProcessMessage that call took
    repeated,           \* history: that call ingested the same envelope as the one before
    inOrder,            \* history: so far call i carried number i, from a Launched on
    steps,              \* history: number of ProcessMessage calls so far
    script,             \* scenario: the envelopes a producer issued, in issue order
    delivered,          \* scenario: the script positions already ingested
    pc,                 \* scenario: goroutine -> "ready" | "locked" | "done"
    mutex,              \* r.mutex: 0 when free, else the goroutine holding the write lock
    debugInfo,          \* the rocket copy and the response of a HandleDebugRocket request
    sortCall,           \* a SortRockets call: its arguments, the caller's slice, the result
    observed            \* history: what a reader saw, and the repository between ingests

vars == <<rockets, processedMessages, pendingMessages, applyTrace, skipped, accepted,
          lastMsg, lastOk, lastOutcome, repeated, inOrder, steps,
          script, delivered, pc, mutex, debugInfo, sortCall, observed>>

-----------------------------------------------------------------------------
(* Bounds of the model *)

MaxNum == 3

MaxSteps == 3

MaxScript == 4

NumGoroutines == 5

MaxBuried == 5

Channels == {"rocket-A", "rocket-B"}

Numbers == 1..MaxNum

Times == {1, 2}

ZeroTime == 0

-----------------------------------------------------------------------------
(* Message type constants *)

MessageTypeRocketLaunched == "RocketLaunched"

MessageTypeRocketSpeedIncreased == "RocketSpeedIncreased"

MessageTypeRocketSpeedDecreased == "RocketSpeedDecreased"

MessageTypeRocketExploded == "RocketExploded"

MessageTypeRocketMissionChanged == "RocketMissionChanged"

(* models.RocketMessage: metadata plus the struct-of-optionals payload *)
RocketMessage(ch, n, t, kind, typ, speed, mission, by, reason, newMission) ==
    [Channel |-> ch, MessageNumber |-> n, MessageTime |-> t, MessageType |-> kind,
     Type |-> typ, LaunchSpeed |-> speed, Mission |-> mission, By |-> by,
     Reason |-> reason, NewMission |-> newMission]

GetChannel(m) == m.Channel

GetMessageNumber(m) == m.MessageNumber

GetMessageTime(m) == m.MessageTime

GetMessageType(m) == m.MessageType

(* The payloads the model feeds: one per kind, unrelated fields left zero as *)
(* the JSON decoder leaves them                                            *)
Payloads ==
    { [MessageType |-> MessageTypeRocketLaunched, Type |-> "Falcon-9", LaunchSpeed |-> 2,
       Mission |-> "ARTEMIS", By |-> 0, Reason |-> "", NewMission |-> ""],
      [MessageType |-> MessageTypeRocketSpeedIncreased, Type |-> "", LaunchSpeed |-> 0,
       Mission |-> "", By |-> 1, Reason |-> "", NewMission |-> ""],
      [MessageType |-> MessageTypeRocketSpeedDecreased, Type |-> "", LaunchSpeed |-> 0,
       Mission |-> "", By |-> 3, Reason |-> "", NewMission |-> ""],
      [MessageType |-> MessageTypeRocketExploded, Type |-> "", LaunchSpeed |-> 0,
       Mission |-> "", By |-> 0, Reason |-> "X", NewMission |-> ""],
      [MessageType |-> MessageTypeRocketMissionChanged, Type |-> "", LaunchSpeed |-> 0,
       Mission |-> "", By |-> 0, Reason |-> "", NewMission |-> "SHUTTLE_MIR"] }

(* a second launch payload, for relaunches that change the identity *)
RelaunchPayload ==
    [MessageType |-> MessageTypeRocketLaunched, Type |-> "Atlas", LaunchSpeed |-> 0,
     Mission |-> "LUNA", By |-> 0, Reason |-> "", NewMission |-> ""]

Envelope(ch, n, t, p) ==
    RocketMessage(ch, n, t, p.MessageType, p.Type, p.LaunchSpeed, p.Mission, p.By,
                  p.Reason, p.NewMission)

(* validation.ValidateRocketMessage: nil error <=> TRUE *)
isValidMessageType(messageType) ==
    messageType \in { MessageTypeRocketLaunched, MessageTypeRocketSpeedIncreased,
                      MessageTypeRocketSpeedDecreased, MessageTypeRocketExploded,
                      MessageTypeRocketMissionChanged }

ValidateRocketMessage(m) ==
    /\ m.Channel # ""
    /\ m.MessageNumber > 0
    /\ m.MessageTime # ZeroTime
    /\ isValidMessageType(m.MessageType)
    /\ (m.MessageType = MessageTypeRocketLaunched
            => m.Type # "" /\ m.Mission # "" /\ m.LaunchSpeed >= 0)
    /\ (m.MessageType \in {MessageTypeRocketSpeedIncreased, MessageTypeRocketSpeedDecreased}
            => m.By > 0)
    /\ (m.MessageType = MessageTypeRocketExploded => m.Reason # "")
    /\ (m.MessageType = MessageTypeRocketMissionChanged => m.NewMission # "")

-----------------------------------------------------------------------------
(* models.RocketState; NoRocket stands for "no entry in r.rockets" *)

NoRocket ==
    [exists |-> FALSE, ID |-> "", Type |-> "", Speed |-> 0, Mission |-> "",
     Exploded |-> FALSE, Reason |-> "", CreatedAt |-> ZeroTime, UpdatedAt |-> ZeroTime,
     LastProcessedMessageNumber |-> 0]

NewRocketState(id) == [NoRocket EXCEPT !.exists = TRUE, !.ID = id]

EmptyMap == [n \in {} |-> 0]

(* delete(m, k) and m[k] = v on a Go map *)
MapDelete(m, k) == [n \in (DOMAIN m) \ {k} |-> m[n]]

(* faulty variant: the assignment is lost *)
MapPutLost(m, k, v) == m

MapPut(m, k, v) == [n \in (DOMAIN m) \cup {k} |-> IF n = k THEN v ELSE m[n]]

(* storage.NewRocketRepository, with the history the claims speak about *)
NewRocketRepository ==
    [rockets |-> [c \in Channels |-> NoRocket],
     processed |-> [c \in Channels |-> {}],
     pending |-> [c \in Channels |-> EmptyMap],
     trace |-> [c \in Channels |-> <<>>],
     skipped |-> [c \in Channels |-> {}]]

-----------------------------------------------------------------------------
(* processMessageByType: the transition function.  A result carries the    *)
(* repository after the call, the boolean the call returns and (history)   *)
(* the branch that produced it.                                            *)

Result(R, ok, outcome) == [R |-> R, ok |-> ok, outcome |-> outcome]

(* history only: the transition applied msg while the cursor stood at `at` *)
RecordApplied(R, id, msg) ==
    [R EXCEPT !.trace[id] =
        Append(@, [n |-> GetMessageNumber(msg),
                   at |-> R.rockets[id].LastProcessedMessageNumber,
                   kind |-> GetMessageType(msg)])]

(* faulty variant: a launch leaves the explosion in place *)
LaunchKeepsExploded(rocket, msg) ==
    [rocket EXCEPT !.Type = msg.Type,
                   !.Mission = msg.Mission,
                   !.Speed = msg.LaunchSpeed,
                   !.CreatedAt = IF rocket.CreatedAt = ZeroTime
                                 THEN GetMessageTime(msg) ELSE @]

(* faulty variant: every launch stamps CreatedAt *)
LaunchStampsCreatedAt(rocket, msg) ==
    [rocket EXCEPT !.Type = msg.Type,
                   !.Mission = msg.Mission,
                   !.Speed = msg.LaunchSpeed,
                   !.Exploded = FALSE,
                   !.Reason = "",
                   !.CreatedAt = GetMessageTime(msg)]

(* case RocketLaunched: reset the rocket, CreatedAt only on first launch *)
ApplyLaunched(rocket, msg) ==
    [rocket EXCEPT !.Type = msg.Type,
                   !.Mission = msg.Mission,
                   !.Speed = msg.LaunchSpeed,
                   !.Exploded = FALSE,
                   !.Reason = "",
                   !.CreatedAt = IF rocket.CreatedAt = ZeroTime
                                 THEN GetMessageTime(msg) ELSE @]

(* case RocketSpeedIncreased *)
ApplySpeedIncreased(rocket, msg) == [rocket EXCEPT !.Speed = @ + msg.By]

(* faulty variant: no floor at zero *)
DecreaseUnfloored(rocket, msg) == [rocket EXCEPT !.Speed = @ - msg.By]

(* case RocketSpeedDecreased: floor at zero *)
ApplySpeedDecreased(rocket, msg) ==
    [rocket EXCEPT !.Speed = IF @ - msg.By < 0 THEN 0 ELSE @ - msg.By]

(* faulty variant: the reason is not recorded *)
ExplodedWithoutReason(rocket, msg) == [rocket EXCEPT !.Exploded = TRUE]

(* case RocketExploded: the rocket's own fields *)
ApplyExploded(rocket, msg) == [rocket EXCEPT !.Exploded = TRUE, !.Reason = msg.Reason]

(* faulty variant: the new mission also overwrites the type *)
MissionChangedRetypes(rocket, msg) ==
    [rocket EXCEPT !.Mission = msg.NewMission, !.Type = msg.NewMission]

(* case RocketMissionChanged *)
ApplyMissionChanged(rocket, msg) == [rocket EXCEPT !.Mission = msg.NewMission]

(* faulty variant: the explosion leaves the buffer alone *)
NoSweep(pendingForRocket) == pendingForRocket

(* the sweep of case RocketExploded over one pending map *)
SweepPending(pendingForRocket) ==
    [n \in { k \in DOMAIN pendingForRocket :
                GetMessageType(pendingForRocket[k]) = MessageTypeRocketLaunched }
        |-> pendingForRocket[n]]

(* faulty variant: the sweep runs over every channel's buffer *)
SweepAllRockets(R, rocketID) ==
    [R EXCEPT !.pending = [c \in Channels |-> SweepPending(R.pending[c])]]

(* the sweep touches r.pendingMessages[rocket.ID] only *)
SweepRocket(R, rocketID) == [R EXCEPT !.pending[rocketID] = SweepPending(@)]

(* faulty variant: no terminal gate *)
NoGate(rocket, msg) == FALSE

(* the terminal gate: an exploded rocket takes nothing but a launch *)
ExplodedGate(rocket, msg) ==
    rocket.Exploded /\ GetMessageType(msg) # MessageTypeRocketLaunched

processMessageByType(R, id, msg) ==
    LET rocket == R.rockets[id]
        kind == GetMessageType(msg)
        Applied(newRocket) == [RecordApplied(R, id, msg) EXCEPT !.rockets[id] = newRocket]
    IN  IF ExplodedGate(rocket, msg) THEN Result(R, FALSE, "gate")
        ELSE IF kind = MessageTypeRocketLaunched THEN
            IF msg.Type = "" \/ msg.Mission = "" THEN Result(R, FALSE, "payload")
            ELSE Result(Applied(ApplyLaunched(rocket, msg)), TRUE, "applied")
        ELSE IF kind = MessageTypeRocketSpeedIncreased THEN
            IF msg.By <= 0 THEN Result(R, FALSE, "payload")
            ELSE Result(Applied(ApplySpeedIncreased(rocket, msg)), TRUE, "applied")
        ELSE IF kind = MessageTypeRocketSpeedDecreased THEN
            IF msg.By <= 0 THEN Result(R, FALSE, "payload")
            ELSE Result(Applied(ApplySpeedDecreased(rocket, msg)), TRUE, "applied")
        ELSE IF kind = MessageTypeRocketExploded THEN
            IF msg.Reason = "" THEN Result(R, FALSE, "payload")
            ELSE Result(SweepRocket(Applied(ApplyExploded(rocket, msg)), rocket.ID),
                        TRUE, "applied")
        ELSE IF kind = MessageTypeRocketMissionChanged THEN
            IF msg.NewMission = "" THEN Result(R, FALSE, "payload")
            ELSE Result(Applied(ApplyMissionChanged(rocket, msg)), TRUE, "applied")
        ELSE Result(R, FALSE, "payload")

(* faulty variant: neither the applied set nor the cursor is updated *)
MarkUpdatedOnly(R, id, n, msg) ==
    [R EXCEPT !.rockets[id].UpdatedAt = GetMessageTime(msg)]

(* faulty variant: the number is not added to the applied set *)
MarkCursorOnly(R, id, n, msg) ==
    [R EXCEPT !.rockets[id].LastProcessedMessageNumber = n,
              !.rockets[id].UpdatedAt = GetMessageTime(msg)]

(* faulty variant: UpdatedAt is not stamped *)
MarkWithoutTime(R, id, n, msg) ==
    [R EXCEPT !.processed[id] = @ \cup {n},
              !.rockets[id].LastProcessedMessageNumber = n]

(* the bookkeeping after a successful transition (both call sites) *)
MarkProcessed(R, id, n, msg) ==
    [R EXCEPT !.processed[id] = @ \cup {n},
              !.rockets[id].LastProcessedMessageNumber = n,
              !.rockets[id].UpdatedAt = GetMessageTime(msg)]

(* faulty variant: buffered messages are never promoted *)
NoDrain(R, id) == R

(* processPendingMessages: promote buffered messages that are now in sequence *)
RECURSIVE processPendingMessages(_, _)
processPendingMessages(R, id) ==
    LET rocket == R.rockets[id]
        pendingForRocket == R.pending[id]
        nextMsgNumber == rocket.LastProcessedMessageNumber + 1
    IN  IF nextMsgNumber \notin DOMAIN pendingForRocket THEN R
        ELSE LET msg == pendingForRocket[nextMsgNumber]
             IN  IF ExplodedGate(rocket, msg)
                 THEN processPendingMessages(
                          [R EXCEPT !.pending[id] = MapDelete(@, nextMsgNumber),
                                    !.skipped[id] = @ \cup {nextMsgNumber}], id)
                 ELSE LET res == processMessageByType(R, id, msg)
                      IN  IF res.ok
                          THEN processPendingMessages(
                                   [MarkProcessed(res.R, id, nextMsgNumber, msg)
                                       EXCEPT !.pending[id] = MapDelete(@, nextMsgNumber)],
                                   id)
                          ELSE [res.R EXCEPT !.pending[id] = MapDelete(@, nextMsgNumber)]

(* one pass through the body of the loop of processPendingMessages: the    *)
(* repository after it, and whether the loop goes round again              *)
DrainIteration(R, id) ==
    LET rocket == R.rockets[id]
        pendingForRocket == R.pending[id]
        nextMsgNumber == rocket.LastProcessedMessageNumber + 1
    IN  IF nextMsgNumber \notin DOMAIN pendingForRocket
        THEN [R |-> R, continue |-> FALSE]
        ELSE LET msg == pendingForRocket[nextMsgNumber]
             IN  IF ExplodedGate(rocket, msg)
                 THEN [R |-> [R EXCEPT !.pending[id] = MapDelete(@, nextMsgNumber),
                                       !.skipped[id] = @ \cup {nextMsgNumber}],
                       continue |-> TRUE]
                 ELSE LET res == processMessageByType(R, id, msg)
                      IN  IF res.ok
                          THEN [R |-> [MarkProcessed(res.R, id, nextMsgNumber, msg)
                                          EXCEPT !.pending[id] = MapDelete(@, nextMsgNumber)],
                                continue |-> TRUE]
                          ELSE [R |-> [res.R EXCEPT !.pending[id] =
                                                        MapDelete(@, nextMsgNumber)],
                                continue |-> FALSE]

(* faulty variant: no deduplication *)
NeverDuplicate(R, rocketID, msgNumber) == FALSE

(* the duplicate check of ProcessMessage *)
IsDuplicate(R, rocketID, msgNumber) == msgNumber \in R.processed[rocketID]

(* faulty variant: a number past the expected one is applied at once *)
AtOrAfterExpected(msgNumber, expectedMsgNumber) == msgNumber >= expectedMsgNumber

(* "is this the next expected message in sequence" *)
IsNextExpected(msgNumber, expectedMsgNumber) == msgNumber = expectedMsgNumber

(* ProcessMessage: deduplicate, buffer or apply, then drain *)
ProcessMessage(R, msg) ==
    LET rocketID == GetChannel(msg)
        msgNumber == GetMessageNumber(msg)
        exists == R.rockets[rocketID].exists
    IN  IF IsDuplicate(R, rocketID, msgNumber) THEN Result(R, TRUE, "duplicate")
        ELSE IF ~exists /\ GetMessageType(msg) # MessageTypeRocketLaunched
        THEN Result([R EXCEPT !.pending[rocketID] = MapPut(@, msgNumber, msg)],
                    TRUE, "bootstrap")
        ELSE LET R1 == IF exists THEN R
                       ELSE [R EXCEPT !.rockets[rocketID] = NewRocketState(rocketID)]
                 expectedMsgNumber ==
                     R1.rockets[rocketID].LastProcessedMessageNumber + 1
             IN  IF IsNextExpected(msgNumber, expectedMsgNumber)
                 THEN LET res == processMessageByType(R1, rocketID, msg)
                      IN  IF res.ok
                          THEN Result(processPendingMessages(
                                          MarkProcessed(res.R, rocketID, msgNumber, msg),
                                          rocketID), TRUE, "applied")
                          ELSE Result(res.R, FALSE, res.outcome)
                 ELSE IF msgNumber > expectedMsgNumber
                 THEN Result([R1 EXCEPT !.pending[rocketID] = MapPut(@, msgNumber, msg)],
                             TRUE, "buffered")
                 ELSE Result(R1, FALSE, "late")

(* ProcessMessage comes to its in-place apply: not a duplicate, not         *)
(* bootstrapped, and the number is the expected one                         *)
ReachesApply(R, msg) ==
    LET rocketID == GetChannel(msg)
        exists == R.rockets[rocketID].exists
    IN  /\ ~IsDuplicate(R, rocketID, GetMessageNumber(msg))
        /\ exists \/ GetMessageType(msg) = MessageTypeRocketLaunched
        /\ IsNextExpected(GetMessageNumber(msg),
                          (IF exists THEN R.rockets[rocketID].LastProcessedMessageNumber
                           ELSE 0) + 1)

(* ProcessMessage from the get-or-create of the rocket up to the call of    *)
(* processPendingMessages, for a call that comes to its in-place apply      *)
ApplyInPlace(R, msg) ==
    LET rocketID == GetChannel(msg)
        R1 == IF R.rockets[rocketID].exists THEN R
              ELSE [R EXCEPT !.rockets[rocketID] = NewRocketState(rocketID)]
        res == processMessageByType(R1, rocketID, msg)
    IN  IF res.ok
        THEN Result(MarkProcessed(res.R, rocketID, GetMessageNumber(msg), msg),
                    TRUE, "applied")
        ELSE Result(res.R, FALSE, res.outcome)

(* read side, under the read lock *)
GetRocket(R, id) == R.rockets[id]

GetDebugInfo(R, rocketID) ==
    [processedCount |-> Cardinality(R.processed[rocketID]),
     pendingMessages |-> DOMAIN R.pending[rocketID]]

(* the orders in which a range over a Go map with key set S can run *)
RangeOrders(S) ==
    { f \in [1..Cardinality(S) -> S] : \A i, j \in 1..Cardinality(S) : i # j => f[i] # f[j] }

(* GetDebugInfo with the slice it builds: the pending numbers are appended  *)
(* in the order of the range over the map, which the language leaves open;  *)
(* an id the repository has never seen finds nil maps                       *)
GetDebugInfoLists(R, rocketID) ==
    LET processedCount == IF rocketID \in DOMAIN R.processed
                          THEN Cardinality(R.processed[rocketID]) ELSE 0
        keys == IF rocketID \in DOMAIN R.pending THEN DOMAIN R.pending[rocketID] ELSE {}
    IN  { [processedCount |-> processedCount, pendingMessages |-> order] :
            order \in RangeOrders(keys) }

-----------------------------------------------------------------------------
(* The repository as the state of the model *)

Repo ==
    [rockets |-> rockets, processed |-> processedMessages, pending |-> pendingMessages,
     trace |-> applyTrace, skipped |-> skipped]

NoMsg == RocketMessage("", 0, ZeroTime, "", "", 0, "", 0, "", "")

(* api.DebugInfo before the handler has filled it; the at... fields are     *)
(* history: what the repository held at the handler's two reads             *)
NoDebugInfo ==
    [RocketID |-> "", ProcessedMessageCount |-> 0, PendingMessageCount |-> 0,
     PendingMessageNumbers |-> {}, LastProcessedMessage |-> 0,
     atGetRocket |-> [cursor |-> 0, count |-> 0, pending |-> {}],
     atGetDebugInfo |-> [cursor |-> 0, count |-> 0, pending |-> {}]]

(* no SortRockets call made *)
NoSortCall ==
    [called |-> FALSE, rockets |-> <<>>, sortBy |-> "", sortOrder |-> "",
     after |-> <<>>, sortedRockets |-> <<>>]

(* no reader has looked and no ingest has run *)
NoObserved == [read |-> FALSE, view |-> <<>>, atLock |-> <<>>, between |-> {}]

(* the repository right after NewRocketRepository, no call made yet *)
InitRepo ==
    /\ rockets = NewRocketRepository.rockets
    /\ processedMessages = NewRocketRepository.processed
    /\ pendingMessages = NewRocketRepository.pending
    /\ applyTrace = NewRocketRepository.trace
    /\ skipped = NewRocketRepository.skipped
    /\ accepted = [c \in Channels |-> {}]
    /\ lastMsg = NoMsg
    /\ lastOk = TRUE
    /\ lastOutcome = "none"
    /\ repeated = FALSE
    /\ inOrder = TRUE
    /\ steps = 0
    /\ debugInfo = NoDebugInfo
    /\ sortCall = NoSortCall
    /\ observed = NoObserved

(* one ProcessMessage call: the whole body runs under r.mutex.Lock *)
Ingest(msg) ==
    LET res == ProcessMessage(Repo, msg)
    IN  /\ rockets' = res.R.rockets
        /\ processedMessages' = res.R.processed
        /\ pendingMessages' = res.R.pending
        /\ applyTrace' = res.R.trace
        /\ skipped' = res.R.skipped
        /\ accepted' = IF res.ok /\ res.outcome # "duplicate"
                       THEN [accepted EXCEPT ![GetChannel(msg)] = @ \cup {GetMessageNumber(msg)}]
                       ELSE accepted
        /\ lastMsg' = msg
        /\ lastOk' = res.ok
        /\ lastOutcome' = res.outcome
        /\ repeated' = (steps > 0 /\ msg = lastMsg)
        /\ inOrder' = (/\ inOrder
                       /\ res.ok
                       /\ GetMessageNumber(msg) = steps + 1
                       /\ steps = 0 => GetMessageType(msg) = MessageTypeRocketLaunched
                       /\ steps > 0 => GetChannel(msg) = GetChannel(lastMsg))
        /\ steps' = steps + 1
        /\ debugInfo' = debugInfo
        /\ sortCall' = sortCall
        /\ observed' = observed

-----------------------------------------------------------------------------
(* Spec: any validated envelope of one channel, in any order, any number   *)
(* of times (at-least-once, reordering transport)                          *)

MainChannel == "rocket-A"

Envelopes ==
    { Envelope(MainChannel, n, t, p) : n \in Numbers, t \in Times, p \in Payloads }

Init ==
    /\ InitRepo
    /\ script = <<>>
    /\ delivered = {}
    /\ pc = <<>>
    /\ mutex = 0

(* api.HandleMessage: validate, then ProcessMessage *)
HandleMessage ==
    /\ steps < MaxSteps
    /\ \E msg \in Envelopes : ValidateRocketMessage(msg) /\ Ingest(msg)
    /\ UNCHANGED <<script, delivered, pc, mutex>>

Next == HandleMessage

Spec == Init /\ [][Next]_vars

-----------------------------------------------------------------------------
(* SpecCross: the same ingest with envelopes of every channel *)

CrossEnvelopes ==
    { Envelope(ch, n, 1, p) : ch \in Channels, n \in Numbers, p \in Payloads }

HandleMessageCross ==
    /\ steps < MaxSteps
    /\ \E msg \in CrossEnvelopes : ValidateRocketMessage(msg) /\ Ingest(msg)
    /\ UNCHANGED <<script, delivered, pc, mutex>>

NextCross == HandleMessageCross

SpecCross == Init /\ [][NextCross]_vars

-----------------------------------------------------------------------------
(* SpecPerm: a producer issues envelopes 1..N of one channel (time = issue *)
(* order); the transport delivers each exactly once, in any order          *)

ScriptPayloads == Payloads \cup {RelaunchPayload}

ScriptsOfLen(len) ==
    { [i \in 1..len |-> Envelope(MainChannel, i, i, f[i])] :
        f \in [1..len -> ScriptPayloads] }

RECURSIVE RunInOrder(_, _, _)
RunInOrder(R, seq, i) ==
    IF i > Len(seq) THEN Result(R, TRUE, "done")
    ELSE LET res == ProcessMessage(R, seq[i])
         IN  IF res.ok THEN RunInOrder(res.R, seq, i + 1) ELSE res

(* every envelope is accepted and applied when the script is ingested in order *)
AcceptableInOrder(seq) ==
    LET res == RunInOrder(NewRocketRepository, seq, 1)
    IN  /\ res.ok
        /\ res.R.rockets[MainChannel].LastProcessedMessageNumber = Len(seq)

AcceptableScripts ==
    { s \in UNION { ScriptsOfLen(len) : len \in 1..MaxScript } : AcceptableInOrder(s) }

InitPerm ==
    /\ InitRepo
    /\ script \in AcceptableScripts
    /\ delivered = {}
    /\ pc = <<>>
    /\ mutex = 0

Deliver(i) ==
    /\ i \notin delivered
    /\ Ingest(script[i])
    /\ delivered' = delivered \cup {i}
    /\ UNCHANGED <<script, pc, mutex>>

NextPerm == \E i \in 1..Len(script) : Deliver(i)

SpecPerm == InitPerm /\ [][NextPerm]_vars

-----------------------------------------------------------------------------
(* SpecConc: after Launched #1, goroutine g calls ProcessMessage once with *)
(* SpeedIncreased #(g+1); the calls contend for r.mutex                    *)

Goroutines == 1..NumGoroutines

LaunchMsg(p) == Envelope(MainChannel, 1, 1, p)

SpeedMsg(g) ==
    RocketMessage(MainChannel, g + 1, 2, MessageTypeRocketSpeedIncreased,
                  "", 0, "", g, "", "")

InitConc ==
    /\ \E p \in {q \in ScriptPayloads : q.MessageType = MessageTypeRocketLaunched} :
          LET res == ProcessMessage(NewRocketRepository, LaunchMsg(p))
          IN  /\ rockets = res.R.rockets
              /\ processedMessages = res.R.processed
              /\ pendingMessages = res.R.pending
              /\ applyTrace = res.R.trace
              /\ skipped = res.R.skipped
              /\ accepted = [c \in Channels |-> IF c = MainChannel THEN {1} ELSE {}]
              /\ lastMsg = LaunchMsg(p)
              /\ lastOk = res.ok
              /\ lastOutcome = res.outcome
    /\ repeated = FALSE
    /\ inOrder = TRUE
    /\ steps = 1
    /\ script = <<lastMsg>>
    /\ delivered = {}
    /\ pc = [g \in Goroutines |-> "ready"]
    /\ mutex = 0
    /\ debugInfo = NoDebugInfo
    /\ sortCall = NoSortCall
    /\ observed = NoObserved

(* r.mutex.Lock() *)
Lock(g) ==
    /\ pc[g] = "ready"
    /\ mutex = 0
    /\ mutex' = g
    /\ pc' = [pc EXCEPT ![g] = "locked"]
    /\ UNCHANGED <<rockets, processedMessages, pendingMessages, applyTrace, skipped,
                   accepted, lastMsg, lastOk, lastOutcome, repeated, inOrder, steps,
                   script, delivered, debugInfo, sortCall, observed>>

(* the body of ProcessMessage and the deferred r.mutex.Unlock() *)
RunLocked(g) ==
    /\ pc[g] = "locked"
    /\ mutex = g
    /\ Ingest(SpeedMsg(g))
    /\ mutex' = 0
    /\ pc' = [pc EXCEPT ![g] = "done"]
    /\ UNCHANGED <<script, delivered>>

NextConc == \E g \in Goroutines : Lock(g) \/ RunLocked(g)

SpecConc == InitConc /\ [][NextConc]_vars

-----------------------------------------------------------------------------
(* SpecBuried: a launch at #1, a message buffered at #b behind a gap, a     *)
(* message at #2, then a message at #(b+1); the calls are made in that      *)
(* order, each with any payload                                             *)

BuriedNumbers == 3..MaxBuried

BuriedScripts ==
    { <<Envelope(MainChannel, 1, 1, p[1]), Envelope(MainChannel, b, 2, p[2]),
        Envelope(MainChannel, 2, 2, p[3]), Envelope(MainChannel, b + 1, 2, p[4])>> :
        b \in BuriedNumbers, p \in [1..4 -> ScriptPayloads] }

InitBuried ==
    /\ InitRepo
    /\ script \in BuriedScripts
    /\ delivered = {}
    /\ pc = <<>>
    /\ mutex = 0

(* the next call of the scenario *)
DeliverNext ==
    LET i == Cardinality(delivered) + 1
    IN  /\ i <= Len(script)
        /\ Ingest(script[i])
        /\ delivered' = delivered \cup {i}
        /\ UNCHANGED <<script, pc, mutex>>

NextBuried == DeliverNext

SpecBuried == InitBuried /\ [][NextBuried]_vars

-----------------------------------------------------------------------------
(* The HTTP collaborator: the status code each handler answers with *)

StatusOK == 200

StatusBadRequest == 400

StatusNotFound == 404

StatusUnprocessableEntity == 422

StatusInternalServerError == 500

(* the error values of package errors *)
NewAPIError(code) == [kind |-> "APIError", Code |-> code]

NewValidationError == [kind |-> "ValidationError", Code |-> 0]

NewMessageProcessingError == [kind |-> "MessageProcessingError", Code |-> 0]

(* middleware.WriteErrorResponse: the status written for an error value *)
WriteErrorResponse(err) ==
    IF err.kind = "APIError" THEN err.Code
    ELSE IF err.kind = "ValidationError" THEN StatusBadRequest
    ELSE IF err.kind = "MessageProcessingError" THEN StatusBadRequest
    ELSE StatusInternalServerError

(* middleware.WriteSuccessResponse *)
WriteSuccessResponse == StatusOK

(* payloads that ValidateRocketMessage and processMessageByType turn down *)
InvalidPayloads ==
    { [MessageType |-> MessageTypeRocketLaunched, Type |-> "", LaunchSpeed |-> 2,
       Mission |-> "ARTEMIS", By |-> 0, Reason |-> "", NewMission |-> ""],
      [MessageType |-> MessageTypeRocketSpeedIncreased, Type |-> "", LaunchSpeed |-> 0,
       Mission |-> "", By |-> 0, Reason |-> "", NewMission |-> ""],
      [MessageType |-> MessageTypeRocketExploded, Type |-> "", LaunchSpeed |-> 0,
       Mission |-> "", By |-> 0, Reason |-> "", NewMission |-> ""],
      [MessageType |-> "RocketLanded", Type |-> "", LaunchSpeed |-> 0,
       Mission |-> "", By |-> 0, Reason |-> "", NewMission |-> ""] }

(* request bodies of POST /messages: one that does not decode, and every    *)
(* envelope, valid or not, that does                                        *)
PostBodies ==
    {[decodes |-> FALSE, message |-> NoMsg]}
        \cup { [decodes |-> TRUE, message |-> Envelope(MainChannel, n, 1, p)] :
                   n \in 0..MaxNum, p \in Payloads \cup InvalidPayloads }

(* api.HandleMessage: the status code of the response *)
HandleMessageStatus(R, body) ==
    IF ~body.decodes THEN WriteErrorResponse(NewAPIError(StatusBadRequest))
    ELSE IF ~ValidateRocketMessage(body.message) THEN WriteErrorResponse(NewValidationError)
    ELSE IF ~ProcessMessage(R, body.message).ok
    THEN WriteErrorResponse(NewMessageProcessingError)
    ELSE WriteSuccessResponse

(* validation.ValidateRocketID: nil error <=> TRUE *)
ValidateRocketID(rocketID) == rocketID # "" /\ Len(rocketID) >= 3

(* path values of GET /rockets/{id}; the ids beyond Channels have no rocket *)
PathIDs == Channels \cup {"", "zz", "unknown-rocket"}

(* api.HandleGetRocket: the status code of the response *)
HandleGetRocketStatus(R, rocketID) ==
    IF ~ValidateRocketID(rocketID) THEN WriteErrorResponse(NewValidationError)
    ELSE IF rocketID \notin Channels \/ ~GetRocket(R, rocketID).exists
    THEN WriteErrorResponse(NewAPIError(StatusNotFound))
    ELSE WriteSuccessResponse

-----------------------------------------------------------------------------
(* SpecDebug: the goroutines of SpecConc ingest while one request           *)
(* GET /debug/rockets/{id} is served: the handler calls GetRocket, then     *)
(* GetDebugInfo, each under its own read lock                               *)

Reader == 0

(* what the repository holds for a channel: cursor, |applied|, pending keys *)
Diagnostics(R, rocketID) ==
    [cursor |-> GetRocket(R, rocketID).LastProcessedMessageNumber,
     count |-> GetDebugInfo(R, rocketID).processedCount,
     pending |-> GetDebugInfo(R, rocketID).pendingMessages]

InitDebug ==
    /\ \E p \in {q \in ScriptPayloads : q.MessageType = MessageTypeRocketLaunched} :
          LET res == ProcessMessage(NewRocketRepository, LaunchMsg(p))
          IN  /\ rockets = res.R.rockets
              /\ processedMessages = res.R.processed
              /\ pendingMessages = res.R.pending
              /\ applyTrace = res.R.trace
              /\ skipped = res.R.skipped
              /\ accepted = [c \in Channels |-> IF c = MainChannel THEN {1} ELSE {}]
              /\ lastMsg = LaunchMsg(p)
              /\ lastOk = res.ok
              /\ lastOutcome = res.outcome
    /\ repeated = FALSE
    /\ inOrder = TRUE
    /\ steps = 1
    /\ script = <<lastMsg>>
    /\ delivered = {}
    /\ pc = [g \in Goroutines \cup {Reader} |-> "ready"]
    /\ mutex = 0
    /\ debugInfo = NoDebugInfo
    /\ sortCall = NoSortCall
    /\ observed = NoObserved

(* HandleDebugRocket up to the return of h.Repository.GetRocket: the copy   *)
(* of the rocket is taken under RLock, which no writer may be holding       *)
ReadRocket ==
    /\ pc[Reader] = "ready"
    /\ mutex = 0
    /\ ValidateRocketID(MainChannel)
    /\ IF GetRocket(Repo, MainChannel).exists
       THEN /\ debugInfo' =
                 [debugInfo EXCEPT
                    !.LastProcessedMessage =
                        GetRocket(Repo, MainChannel).LastProcessedMessageNumber,
                    !.atGetRocket = Diagnostics(Repo, MainChannel)]
            /\ pc' = [pc EXCEPT ![Reader] = "copied"]
       ELSE /\ debugInfo' = debugInfo
            /\ pc' = [pc EXCEPT ![Reader] = "notfound"]
    /\ UNCHANGED <<rockets, processedMessages, pendingMessages, applyTrace, skipped,
                   accepted, lastMsg, lastOk, lastOutcome, repeated, inOrder, steps,
                   script, delivered, mutex, sortCall, observed>>

(* the rest of HandleDebugRocket: GetDebugInfo under a second RLock, then   *)
(* the response is assembled from it and from the earlier copy              *)
ReadDebugInfo ==
    /\ pc[Reader] = "copied"
    /\ mutex = 0
    /\ debugInfo' =
          [debugInfo EXCEPT
             !.RocketID = MainChannel,
             !.ProcessedMessageCount = GetDebugInfo(Repo, MainChannel).processedCount,
             !.PendingMessageCount =
                 Cardinality(GetDebugInfo(Repo, MainChannel).pendingMessages),
             !.PendingMessageNumbers = GetDebugInfo(Repo, MainChannel).pendingMessages,
             !.atGetDebugInfo = Diagnostics(Repo, MainChannel)]
    /\ pc' = [pc EXCEPT ![Reader] = "done"]
    /\ UNCHANGED <<rockets, processedMessages, pendingMessages, applyTrace, skipped,
                   accepted, lastMsg, lastOk, lastOutcome, repeated, inOrder, steps,
                   script, delivered, mutex, sortCall, observed>>

NextDebug ==
    \/ \E g \in Goroutines : Lock(g) \/ RunLocked(g)
    \/ ReadRocket
    \/ ReadDebugInfo

SpecDebug == InitDebug /\ [][NextDebug]_vars

-----------------------------------------------------------------------------
(* SpecSort: sorting.SortRockets, the sorter HandleGetRockets applies to  *)
(* the summaries.  A string is the sequence of its bytes, so that          *)
(* strings.ToLower and the byte-wise < of the language are computed        *)

MaxRockets == 3

(* strings.ToLower on ASCII: 'A'..'Z' (65..90) become 'a'..'z' *)
ToLower(s) == [i \in 1..Len(s) |-> IF s[i] >= 65 /\ s[i] <= 90 THEN s[i] + 32 ELSE s[i]]

(* the < of two strings: byte-wise lexicographic, a proper prefix is less *)
RECURSIVE StringLess(_, _)
StringLess(a, b) ==
    IF b = <<>> THEN FALSE
    ELSE IF a = <<>> THEN TRUE
    ELSE IF a[1] # b[1] THEN a[1] < b[1]
    ELSE StringLess(Tail(a), Tail(b))

(* time.Time.Before on the model's integer instants *)
Before(t, u) == t < u

(* models.RocketSummary values: ids "b1" "A2" "a3" "B0", types "A" "f" "D" *)
(* "d", missions "m" "M" "n" "K"; speeds, update times, and the lower-case *)
(* forms of types and missions tie                                         *)
Summaries ==
    { [ID |-> <<98, 49>>, Type |-> <<65>>, Speed |-> 100, Mission |-> <<109>>,
       Exploded |-> TRUE, UpdatedAt |-> 3],
      [ID |-> <<65, 50>>, Type |-> <<102>>, Speed |-> 200, Mission |-> <<77>>,
       Exploded |-> FALSE, UpdatedAt |-> 2],
      [ID |-> <<97, 51>>, Type |-> <<68>>, Speed |-> 100, Mission |-> <<110>>,
       Exploded |-> FALSE, UpdatedAt |-> 2],
      [ID |-> <<66, 48>>, Type |-> <<100>>, Speed |-> 300, Mission |-> <<75>>,
       Exploded |-> TRUE, UpdatedAt |-> 1] }

(* the slices a caller may pass *)
SummarySlices == UNION { [1..n -> Summaries] : n \in 0..MaxRockets }

(* the sortBy and sortOrder values that pass ValidateSortBy and            *)
(* ValidateSortOrder in HandleGetRockets                                   *)
SortBys == {"", "id", "type", "speed", "mission", "exploded", "updatedAt"}

SortOrders == {"", "asc", "desc"}

(* a comparator that never reverses *)
LessAscendingOnly(a, b, sortBy, sortOrder) ==
    CASE sortBy = "id" -> StringLess(ToLower(a.ID), ToLower(b.ID))
      [] sortBy = "type" -> StringLess(ToLower(a.Type), ToLower(b.Type))
      [] sortBy = "speed" -> a.Speed < b.Speed
      [] sortBy = "mission" -> StringLess(ToLower(a.Mission), ToLower(b.Mission))
      [] sortBy = "exploded" ->
            IF a.Exploded # b.Exploded THEN ~a.Exploded /\ b.Exploded
            ELSE StringLess(ToLower(a.ID), ToLower(b.ID))
      [] sortBy = "updatedAt" -> Before(a.UpdatedAt, b.UpdatedAt)
      [] OTHER -> StringLess(ToLower(a.ID), ToLower(b.ID))

(* the less function SortRockets hands to sort.Slice, on the elements at   *)
(* the two indices                                                         *)
Less(a, b, sortBy, sortOrder) ==
    LET result ==
          CASE sortBy = "id" -> StringLess(ToLower(a.ID), ToLower(b.ID))
            [] sortBy = "type" -> StringLess(ToLower(a.Type), ToLower(b.Type))
            [] sortBy = "speed" -> a.Speed < b.Speed
            [] sortBy = "mission" -> StringLess(ToLower(a.Mission), ToLower(b.Mission))
            [] sortBy = "exploded" ->
                  IF a.Exploded # b.Exploded THEN ~a.Exploded /\ b.Exploded
                  ELSE StringLess(ToLower(a.ID), ToLower(b.ID))
            [] sortBy = "updatedAt" -> Before(a.UpdatedAt, b.UpdatedAt)
            [] OTHER -> StringLess(ToLower(a.ID), ToLower(b.ID))
    IN  IF sortOrder = "desc" THEN ~result ELSE result

Swap(s, i, j) == [s EXCEPT ![i] = s[j], ![j] = s[i]]

(* sort.Slice on a slice of fewer than 12 elements is an insertion sort:   *)
(* for i := 1; i < n; i++ { for j := i; j > 0 && less(j, j-1); j-- swap }  *)
RECURSIVE SiftBack(_, _, _, _)
SiftBack(s, j, sortBy, sortOrder) ==
    IF j > 1 /\ Less(s[j], s[j - 1], sortBy, sortOrder)
    THEN SiftBack(Swap(s, j, j - 1), j - 1, sortBy, sortOrder)
    ELSE s

RECURSIVE InsertionSort(_, _, _, _)
InsertionSort(s, i, sortBy, sortOrder) ==
    IF i > Len(s) THEN s
    ELSE InsertionSort(SiftBack(s, i, sortBy, sortOrder), i + 1, sortBy, sortOrder)

Slice(s, sortBy, sortOrder) == InsertionSort(s, 2, sortBy, sortOrder)

(* SortRockets: the caller's slice after the call and the slice returned;  *)
(* the sort runs on the copy                                               *)
SortRockets(rocketSlice, sortBy, sortOrder) ==
    LET by == IF sortBy = "" THEN "id" ELSE sortBy
        order == IF sortOrder = "" THEN "asc" ELSE sortOrder
        sortedRockets == rocketSlice
    IN  [rockets |-> rocketSlice, sortedRockets |-> Slice(sortedRockets, by, order)]

InitSort ==
    /\ rockets = NewRocketRepository.rockets
    /\ processedMessages = NewRocketRepository.processed
    /\ pendingMessages = NewRocketRepository.pending
    /\ applyTrace = NewRocketRepository.trace
    /\ skipped = NewRocketRepository.skipped
    /\ accepted = [c \in Channels |-> {}]
    /\ lastMsg = NoMsg
    /\ lastOk = TRUE
    /\ lastOutcome = "none"
    /\ repeated = FALSE
    /\ inOrder = TRUE
    /\ steps = 0
    /\ script = <<>>
    /\ delivered = {}
    /\ pc = <<>>
    /\ mutex = 0
    /\ debugInfo = NoDebugInfo
    /\ observed = NoObserved
    /\ \E input \in SummarySlices, sortBy \in SortBys, sortOrder \in SortOrders :
          sortCall = [called |-> FALSE, rockets |-> input, sortBy |-> sortBy,
                      sortOrder |-> sortOrder, after |-> input, sortedRockets |-> <<>>]

(* sorting.SortRockets(rockets, sortBy, sortOrder) *)
CallSortRockets ==
    /\ ~sortCall.called
    /\ LET res == SortRockets(sortCall.rockets, sortCall.sortBy, sortCall.sortOrder)
       IN  sortCall' = [sortCall EXCEPT !.called = TRUE,
                                        !.after = res.rockets,
                                        !.sortedRockets = res.sortedRockets]
    /\ UNCHANGED <<rockets, processedMessages, pendingMessages, applyTrace, skipped,
                   accepted, lastMsg, lastOk, lastOutcome, repeated, inOrder, steps,
                   script, delivered, pc, mutex, debugInfo, observed>>

NextSort == CallSortRockets

SpecSort == InitSort /\ [][NextSort]_vars

-----------------------------------------------------------------------------
(* SpecRaw: ProcessMessage called directly, as the repository tests call   *)
(* it, with envelopes no validator has seen                                *)

RawPayloads ==
    { p \in Payloads \cup InvalidPayloads :
        p.MessageType \in { MessageTypeRocketLaunched, MessageTypeRocketSpeedIncreased,
                            MessageTypeRocketExploded } }

RawEnvelopes == { Envelope(MainChannel, n, 1, p) : n \in Numbers, p \in RawPayloads }

(* repo.ProcessMessage(msg) *)
CallProcessMessage ==
    /\ steps < MaxSteps
    /\ \E msg \in RawEnvelopes : Ingest(msg)
    /\ UNCHANGED <<script, delivered, pc, mutex>>

NextRaw == CallProcessMessage

SpecRaw == Init /\ [][NextRaw]_vars

-----------------------------------------------------------------------------
(* SpecAtomic: the writers of SpecConc with ProcessMessage taken apart     *)
(* into the in-place part and the iterations of the drain, all under       *)
(* r.mutex.Lock, and a reader that takes r.mutex.RLock once                *)

NumWriters == 3

Writers == 1..NumWriters

(* what GetRocket and GetDebugInfo return for the channel (GetAllRockets   *)
(* returns a part of the same rocket)                                      *)
View(R) ==
    [rocket |-> GetRocket(R, MainChannel),
     processedCount |-> GetDebugInfo(R, MainChannel).processedCount,
     pendingMessages |-> GetDebugInfo(R, MainChannel).pendingMessages]

(* faulty variant: the reader does not wait for the writer *)
NoReadLock == TRUE

(* r.mutex.RLock() returns: no writer holds the lock *)
RLockGranted == mutex = 0

InitAtomic ==
    /\ \E p \in {q \in ScriptPayloads : q.MessageType = MessageTypeRocketLaunched} :
          LET res == ProcessMessage(NewRocketRepository, LaunchMsg(p))
          IN  /\ rockets = res.R.rockets
              /\ processedMessages = res.R.processed
              /\ pendingMessages = res.R.pending
              /\ applyTrace = res.R.trace
              /\ skipped = res.R.skipped
              /\ accepted = [c \in Channels |-> IF c = MainChannel THEN {1} ELSE {}]
              /\ lastMsg = LaunchMsg(p)
              /\ lastOk = res.ok
              /\ lastOutcome = res.outcome
              /\ observed = [read |-> FALSE, view |-> <<>>, atLock |-> res.R,
                             between |-> {View(res.R)}]
    /\ repeated = FALSE
    /\ inOrder = TRUE
    /\ steps = 1
    /\ script = <<lastMsg>>
    /\ delivered = {}
    /\ pc = [g \in Writers \cup {Reader} |-> "ready"]
    /\ mutex = 0
    /\ debugInfo = NoDebugInfo
    /\ sortCall = NoSortCall

(* r.mutex.Lock() at the head of ProcessMessage *)
WriteLock(g) ==
    /\ pc[g] = "ready"
    /\ mutex = 0
    /\ mutex' = g
    /\ pc' = [pc EXCEPT ![g] = "locked"]
    /\ observed' = [observed EXCEPT !.atLock = Repo]
    /\ UNCHANGED <<rockets, processedMessages, pendingMessages, applyTrace, skipped,
                   accepted, lastMsg, lastOk, lastOutcome, repeated, inOrder, steps,
                   script, delivered, debugInfo, sortCall>>

(* ProcessMessage up to its return or up to the call of                    *)
(* processPendingMessages                                                  *)
BeginIngest(g) ==
    /\ pc[g] = "locked"
    /\ mutex = g
    /\ LET res == IF ReachesApply(Repo, SpeedMsg(g))
                  THEN ApplyInPlace(Repo, SpeedMsg(g))
                  ELSE ProcessMessage(Repo, SpeedMsg(g))
       IN  /\ rockets' = res.R.rockets
           /\ processedMessages' = res.R.processed
           /\ pendingMessages' = res.R.pending
           /\ applyTrace' = res.R.trace
           /\ skipped' = res.R.skipped
           /\ pc' = [pc EXCEPT ![g] = IF ReachesApply(Repo, SpeedMsg(g)) /\ res.ok
                                      THEN "draining" ELSE "returning"]
    /\ UNCHANGED <<accepted, lastMsg, lastOk, lastOutcome, repeated, inOrder, steps,
                   script, delivered, mutex, debugInfo, sortCall, observed>>

(* one iteration of the loop of processPendingMessages *)
DrainStep(g) ==
    /\ pc[g] = "draining"
    /\ mutex = g
    /\ LET it == DrainIteration(Repo, MainChannel)
       IN  /\ rockets' = it.R.rockets
           /\ processedMessages' = it.R.processed
           /\ pendingMessages' = it.R.pending
           /\ applyTrace' = it.R.trace
           /\ skipped' = it.R.skipped
           /\ pc' = [pc EXCEPT ![g] = IF it.continue THEN "draining" ELSE "returning"]
    /\ UNCHANGED <<accepted, lastMsg, lastOk, lastOutcome, repeated, inOrder, steps,
                   script, delivered, mutex, debugInfo, sortCall, observed>>

(* ProcessMessage returns: the deferred r.mutex.Unlock() *)
WriteUnlock(g) ==
    /\ pc[g] = "returning"
    /\ mutex = g
    /\ mutex' = 0
    /\ pc' = [pc EXCEPT ![g] = "done"]
    /\ LET res == ProcessMessage(observed.atLock, SpeedMsg(g))
       IN  /\ accepted' = IF res.ok /\ res.outcome # "duplicate"
                          THEN [accepted EXCEPT ![MainChannel] = @ \cup {g + 1}]
                          ELSE accepted
           /\ lastOk' = res.ok
           /\ lastOutcome' = res.outcome
           /\ inOrder' = (inOrder /\ res.ok /\ g + 1 = steps + 1)
    /\ lastMsg' = SpeedMsg(g)
    /\ repeated' = (SpeedMsg(g) = lastMsg)
    /\ steps' = steps + 1
    /\ observed' = [observed EXCEPT !.between = @ \cup {View(Repo)}]
    /\ UNCHANGED <<rockets, processedMessages, pendingMessages, applyTrace, skipped,
                   script, delivered, debugInfo, sortCall>>

(* a query: RLock, copy, RUnlock *)
ReadView ==
    /\ pc[Reader] = "ready"
    /\ RLockGranted
    /\ observed' = [observed EXCEPT !.read = TRUE, !.view = View(Repo)]
    /\ pc' = [pc EXCEPT ![Reader] = "done"]
    /\ UNCHANGED <<rockets, processedMessages, pendingMessages, applyTrace, skipped,
                   accepted, lastMsg, lastOk, lastOutcome, repeated, inOrder, steps,
                   script, delivered, mutex, debugInfo, sortCall>>

NextAtomic ==
    \/ \E g \in Writers : WriteLock(g) \/ BeginIngest(g) \/ DrainStep(g) \/ WriteUnlock(g)
    \/ ReadView

SpecAtomic == InitAtomic /\ [][NextAtomic]_vars

-----------------------------------------------------------------------------
(* Properties *)

(* what one channel holds: its rocket, its applied set, its pending buffer *)
ChannelState(R, ch) ==
    [rocket |-> R.rockets[ch], processed |-> R.processed[ch], pending |-> R.pending[ch]]

(* the repository with every channel but ch as NewRocketRepository leaves it *)
Alone(R, ch) ==
    [rockets |-> [c \in Channels |-> IF c = ch THEN R.rockets[c] ELSE NoRocket],
     processed |-> [c \in Channels |-> IF c = ch THEN R.processed[c] ELSE {}],
     pending |-> [c \in Channels |-> IF c = ch THEN R.pending[c] ELSE EmptyMap],
     trace |-> [c \in Channels |-> IF c = ch THEN R.trace[c] ELSE <<>>],
     skipped |-> [c \in Channels |-> IF c = ch THEN R.skipped[c] ELSE {}]]

IsCall == steps' = steps + 1

LastApplied(ch) == rockets[ch].LastProcessedMessageNumber

(* C1: once every envelope of a script that is accepted in order has been   *)
(* ingested, in whatever order, the channel is in the state the in-order    *)
(* ingest ends in (rocket fields, lastApplied, applied set, pending).       *)
PermutationEquivalence ==
    delivered = 1..Len(script)
        => ChannelState(Repo, MainChannel)
             = ChannelState(RunInOrder(NewRocketRepository, script, 1).R, MainChannel)

(* C2: no message number occurs twice among the applications of a channel.  *)
AtMostOnceApplication ==
    \A ch \in Channels :
        \A i, j \in DOMAIN applyTrace[ch] :
            i # j => applyTrace[ch][i].n # applyTrace[ch][j].n

(* C2 witness: an applied number was delivered again and not re-applied.    *)
RedeliveryAfterApply ==
    /\ lastOutcome = "duplicate"
    /\ \E i \in DOMAIN applyTrace[MainChannel] :
          applyTrace[MainChannel][i].n = GetMessageNumber(lastMsg)

(* C3: a call whose number is already in the applied set returns true and   *)
(* changes neither the rockets, nor the applied sets, nor the buffers.      *)
DuplicateAbsorbed ==
    [][ (IsCall /\ GetMessageNumber(lastMsg') \in processedMessages[GetChannel(lastMsg')])
            => /\ lastOk'
               /\ rockets' = rockets
               /\ processedMessages' = processedMessages
               /\ pendingMessages' = pendingMessages ]_vars

(* C3 witness: the re-delivered number carried an Exploded payload, and the *)
(* rocket is not exploded.                                                  *)
DuplicateOfOtherKind ==
    /\ lastOutcome = "duplicate"
    /\ GetMessageType(lastMsg) = MessageTypeRocketExploded
    /\ rockets[MainChannel].exists
    /\ ~rockets[MainChannel].Exploded

AppliedAtCursor ==
    \A ch \in Channels :
        \A i \in DOMAIN applyTrace[ch] :
            /\ applyTrace[ch][i].n = applyTrace[ch][i].at + 1
            /\ i > 1 => applyTrace[ch][i].n > applyTrace[ch][i - 1].n

(* after i calls that carried the accepted messages 1..i in order, from a   *)
(* Launched on, the cursor is i                                             *)
InOrderCursor == (inOrder /\ steps > 0) => LastApplied(GetChannel(lastMsg)) = steps

CursorNeverDecreases ==
    \A ch \in Channels :
        rockets'[ch].LastProcessedMessageNumber >= rockets[ch].LastProcessedMessageNumber

(* C5: every application is of the number right after the cursor, in        *)
(* increasing order; the cursor never decreases; after i calls that carried *)
(* the accepted messages 1..i in order the cursor is i.                     *)
PerChannelOrdering ==
    /\ [](AppliedAtCursor /\ InOrderCursor)
    /\ [][CursorNeverDecreases]_vars

(* C5 witness: three numbers arrived out of order and were all applied.     *)
OutOfOrderAllApplied ==
    /\ steps = 3
    /\ ~inOrder
    /\ Len(applyTrace[MainChannel]) = 3

(* the sum of the increments of goroutines 1..g *)
RECURSIVE SumBy(_)
SumBy(g) == IF g = 0 THEN 0 ELSE SpeedMsg(g).By + SumBy(g - 1)

AllReturned == DOMAIN pc = Goroutines /\ \A g \in Goroutines : pc[g] = "done"

(* C6: when every goroutine has returned, the cursor is N+1, N+1 numbers    *)
(* are applied, nothing is pending and the speed is the launch speed plus   *)
(* every increment.                                                         *)
ConcurrentIngress ==
    AllReturned
        => /\ LastApplied(MainChannel) = NumGoroutines + 1
           /\ Cardinality(processedMessages[MainChannel]) = NumGoroutines + 1
           /\ DOMAIN pendingMessages[MainChannel] = {}
           /\ rockets[MainChannel].Speed = script[1].LaunchSpeed + SumBy(NumGoroutines)

(* C6 witness: all returned, and the call that ran last carried number 2.   *)
LowestNumberRanLast == AllReturned /\ GetMessageNumber(lastMsg) = 2

(* C7: a call changes its own channel exactly as it would with every other  *)
(* channel empty, returns the same value, and leaves the others untouched.  *)
CrossChannelIndependence ==
    [][ IsCall =>
          \A ch \in Channels :
              IF ch = GetChannel(lastMsg')
              THEN LET alone == ProcessMessage(Alone(Repo, ch), lastMsg')
                   IN  /\ ChannelState(Repo', ch) = ChannelState(alone.R, ch)
                       /\ lastOk' = alone.ok
              ELSE ChannelState(Repo', ch) = ChannelState(Repo, ch) ]_vars

(* C7 witness: an Exploded was applied on A while B buffers a non-launch.   *)
SweepBesideOtherChannel ==
    /\ lastOutcome = "applied"
    /\ GetChannel(lastMsg) = "rocket-A"
    /\ GetMessageType(lastMsg) = MessageTypeRocketExploded
    /\ \E k \in DOMAIN pendingMessages["rocket-B"] :
          GetMessageType(pendingMessages["rocket-B"][k]) # MessageTypeRocketLaunched

(* C8: no number is both applied and pending.                               *)
AppliedPendingDisjoint ==
    \A ch \in Channels : processedMessages[ch] \cap DOMAIN pendingMessages[ch] = {}

(* C9: every pending key is above the cursor.                               *)
PendingAboveCursor ==
    \A ch \in Channels : \A k \in DOMAIN pendingMessages[ch] : k > LastApplied(ch)

(* C10: every number up to the cursor is applied or was dropped by the      *)
(* drain's skip branch.                                                     *)
CursorPrefixSettled ==
    \A ch \in Channels :
        \A n \in 1..LastApplied(ch) : n \in processedMessages[ch] \/ n \in skipped[ch]

(* C10 witness: the cursor reached 3 through a drain.                       *)
CursorReachedThree ==
    /\ LastApplied(MainChannel) = 3
    /\ lastOutcome = "applied"
    /\ GetMessageNumber(lastMsg) < 3

(* a Launched message has been applied on the channel *)
LaunchApplied(ch) ==
    \E i \in DOMAIN applyTrace[ch] : applyTrace[ch][i].kind = MessageTypeRocketLaunched

(* C11: after every ingest GetRocket reports a rocket for a channel exactly  *)
(* when a Launched message has been applied on that channel.                *)
RocketExistsIffLaunched ==
    \A ch \in Channels : GetRocket(Repo, ch).exists <=> LaunchApplied(ch)

(* C12: a Launched with number > 1 ingested on a channel without a rocket   *)
(* returns true, is buffered, and GetRocket still reports no rocket.        *)
LaunchedAheadBuffers ==
    [][ (/\ IsCall
         /\ ~GetRocket(Repo, GetChannel(lastMsg')).exists
         /\ GetMessageType(lastMsg') = MessageTypeRocketLaunched
         /\ GetMessageNumber(lastMsg') > 1)
            => /\ lastOk'
               /\ GetMessageNumber(lastMsg') \in DOMAIN pendingMessages'[GetChannel(lastMsg')]
               /\ ~GetRocket(Repo', GetChannel(lastMsg')).exists ]_vars

(* the end of the contiguous run of buffered numbers that starts after k *)
RECURSIVE RunEnd(_, _)
RunEnd(pendingForRocket, k) ==
    IF k + 1 \in DOMAIN pendingForRocket THEN RunEnd(pendingForRocket, k + 1) ELSE k

(* the first Exploded within the buffered run 2..k, or k when there is none *)
RunLimit(pendingForRocket, k) ==
    LET E == { j \in 2..k : GetMessageType(pendingForRocket[j]) = MessageTypeRocketExploded }
    IN  IF E = {} THEN k ELSE CHOOSE j \in E : \A i \in E : j <= i

(* a non-Launched call on a channel without a rocket is buffered, returns    *)
(* true and leaves the channel without a rocket and with nothing applied    *)
BootstrapBuffers ==
    LET ch == GetChannel(lastMsg')
        n == GetMessageNumber(lastMsg')
    IN  (/\ IsCall
         /\ ~GetRocket(Repo, ch).exists
         /\ GetMessageType(lastMsg') # MessageTypeRocketLaunched)
            => /\ lastOk'
               /\ n \in DOMAIN pendingMessages'[ch]
               /\ ~GetRocket(Repo', ch).exists
               /\ GetDebugInfo(Repo', ch).processedCount = 0
               /\ n \in GetDebugInfo(Repo', ch).pendingMessages

(* Launched #1 arrives on a channel that has no rocket yet *)
FirstLaunchArrives ==
    /\ IsCall
    /\ ~GetRocket(Repo, GetChannel(lastMsg')).exists
    /\ GetMessageType(lastMsg') = MessageTypeRocketLaunched
    /\ GetMessageNumber(lastMsg') = 1

(* C13 as stated: a non-Launched call on a channel without a rocket is      *)
(* buffered (ok, no rocket, processedCount 0, number pending); when         *)
(* Launched #1 then arrives, every buffered message of the contiguous run   *)
(* 2..k is applied.                                                         *)
BootstrapGateDrainsAll ==
    [][ /\ BootstrapBuffers
        /\ FirstLaunchArrives =>
              LET ch == GetChannel(lastMsg')
                  k == RunEnd(pendingMessages[ch], 1)
              IN  /\ lastOk'
                  /\ \A j \in 2..k : j \in processedMessages'[ch] ]_vars

(* C13 amended: as above, but the run is applied up to and including its    *)
(* first Exploded; what was buffered behind that Exploded is discarded,     *)
(* neither applied nor pending.                                             *)
BootstrapGateDrains ==
    [][ /\ BootstrapBuffers
        /\ FirstLaunchArrives =>
              LET ch == GetChannel(lastMsg')
                  k == RunEnd(pendingMessages[ch], 1)
                  limit == RunLimit(pendingMessages[ch], k)
              IN  /\ lastOk'
                  /\ rockets'[ch].LastProcessedMessageNumber = limit
                  /\ \A j \in 2..limit : j \in processedMessages'[ch]
                  /\ \A j \in (limit + 1)..k :
                        /\ j \notin processedMessages'[ch]
                        /\ j \notin DOMAIN pendingMessages'[ch] ]_vars

(* C13 witness: two non-Launched messages were buffered on a channel        *)
(* without a rocket, then Launched #1 arrived and the drain applied both.   *)
BootstrapDrained ==
    /\ steps = 3
    /\ lastOutcome = "applied"
    /\ GetMessageType(lastMsg) = MessageTypeRocketLaunched
    /\ GetMessageNumber(lastMsg) = 1
    /\ Len(applyTrace[MainChannel]) = 3
    /\ \A i \in 2..3 : applyTrace[MainChannel][i].kind # MessageTypeRocketLaunched

(* the kinds of the first k envelopes of the script *)
ScriptKinds(k) == [i \in 1..k |-> GetMessageType(script[i])]

(* C14: after Launched #1, a non-Launched buffered at #b and Exploded #2,   *)
(* the rocket is exploded with the explosion's reason, its speed is the     *)
(* launch speed, nothing is pending and lastApplied has advanced to b.      *)
ExplosionBuriesAndSkips ==
    (/\ delivered = 1..3
     /\ Len(script) >= 3
     /\ ScriptKinds(3)[1] = MessageTypeRocketLaunched
     /\ ScriptKinds(3)[2] \in {MessageTypeRocketSpeedIncreased, MessageTypeRocketSpeedDecreased,
                               MessageTypeRocketMissionChanged}
     /\ ScriptKinds(3)[3] = MessageTypeRocketExploded)
        => /\ rockets[MainChannel].Exploded
           /\ rockets[MainChannel].Reason = script[3].Reason
           /\ rockets[MainChannel].Speed = script[1].LaunchSpeed
           /\ DOMAIN pendingMessages[MainChannel] = {}
           /\ LastApplied(MainChannel) = GetMessageNumber(script[2])

(* C15: continuing with a Launched at #(b+1), the relaunch takes effect:    *)
(* not exploded, no reason, speed, type and mission of that Launched,       *)
(* createdAt still the time of Launched #1.                                 *)
RelaunchProgress ==
    (/\ delivered = 1..4
     /\ Len(script) >= 4
     /\ ScriptKinds(4)[1] = MessageTypeRocketLaunched
     /\ ScriptKinds(4)[2] \in {MessageTypeRocketSpeedIncreased, MessageTypeRocketSpeedDecreased,
                               MessageTypeRocketMissionChanged}
     /\ ScriptKinds(4)[3] = MessageTypeRocketExploded
     /\ ScriptKinds(4)[4] = MessageTypeRocketLaunched)
        => /\ ~rockets[MainChannel].Exploded
           /\ rockets[MainChannel].Reason = ""
           /\ rockets[MainChannel].Speed = script[4].LaunchSpeed
           /\ rockets[MainChannel].Type = script[4].Type
           /\ rockets[MainChannel].Mission = script[4].Mission
           /\ rockets[MainChannel].CreatedAt = GetMessageTime(script[1])

(* C16: of a script that is accepted in order, every envelope whose         *)
(* non-duplicate call returned true is applied once every lower-numbered    *)
(* envelope of the script has been ingested.                                *)
AcceptedIsApplied ==
    \A n \in accepted[MainChannel] :
        (\A j \in 1..n : j \in delivered) => n \in processedMessages[MainChannel]

(* C17: after a call that returned true, the envelope's number is in the    *)
(* channel's applied set or a key of its pending buffer, and the read side  *)
(* shows it: GetDebugInfo counts it or lists it, and when the call applied  *)
(* it GetRocket reports a cursor at or past the number.                     *)
AcceptedIsRecorded ==
    (steps > 0 /\ lastOk) =>
        LET ch == GetChannel(lastMsg)
            n == GetMessageNumber(lastMsg)
            info == GetDebugInfo(Repo, ch)
        IN  /\ n \in processedMessages[ch] \/ n \in DOMAIN pendingMessages[ch]
            /\ n \in processedMessages[ch] => info.processedCount >= 1
            /\ n \notin processedMessages[ch] => n \in info.pendingMessages
            /\ lastOutcome = "applied"
                  => /\ GetRocket(Repo, ch).exists
                     /\ GetRocket(Repo, ch).LastProcessedMessageNumber >= n

(* C17 witness: a call on an existing rocket returned true by buffering a   *)
(* number ahead of the cursor.                                              *)
BufferedAhead ==
    /\ lastOk
    /\ lastOutcome = "buffered"
    /\ LaunchApplied(MainChannel)
    /\ GetMessageNumber(lastMsg) \in DOMAIN pendingMessages[MainChannel]
    /\ GetMessageNumber(lastMsg) \notin processedMessages[MainChannel]

(* C18: a non-Launched call carrying the number right after the cursor of   *)
(* an exploded rocket returns false and changes neither the rockets         *)
(* (fields, cursor), nor the applied sets, nor the pending buffers.         *)
TerminalGate ==
    [][ (/\ IsCall
         /\ GetRocket(Repo, GetChannel(lastMsg')).exists
         /\ GetRocket(Repo, GetChannel(lastMsg')).Exploded
         /\ GetMessageType(lastMsg') # MessageTypeRocketLaunched
         /\ GetMessageNumber(lastMsg') = LastApplied(GetChannel(lastMsg')) + 1)
            => /\ ~lastOk'
               /\ rockets' = rockets
               /\ processedMessages' = processedMessages
               /\ pendingMessages' = pendingMessages ]_vars

(* C18 witness: the gate rejected an Exploded sent to an exploded rocket.   *)
GateRejected ==
    /\ ~lastOk
    /\ lastOutcome = "gate"
    /\ GetMessageType(lastMsg) = MessageTypeRocketExploded
    /\ rockets[MainChannel].Exploded
    /\ GetMessageNumber(lastMsg) = LastApplied(MainChannel) + 1

(* C19: a Launched call carrying the number right after the cursor of an    *)
(* existing rocket, exploded or not, returns true and sets type, mission,   *)
(* speed, exploded = false and reason = "" from its payload; the call ends  *)
(* in the state the drain reaches from that reset rocket.                   *)
LaunchResets ==
    [][ (/\ IsCall
         /\ GetRocket(Repo, GetChannel(lastMsg')).exists
         /\ GetMessageType(lastMsg') = MessageTypeRocketLaunched
         /\ GetMessageNumber(lastMsg') = LastApplied(GetChannel(lastMsg')) + 1)
            => LET m == lastMsg'
                   ch == GetChannel(m)
                   n == GetMessageNumber(m)
                   reset == [rockets[ch] EXCEPT !.Type = m.Type,
                                                !.Mission = m.Mission,
                                                !.Speed = m.LaunchSpeed,
                                                !.Exploded = FALSE,
                                                !.Reason = "",
                                                !.CreatedAt = rockets'[ch].CreatedAt]
                   after == processPendingMessages(
                                MarkProcessed([Repo EXCEPT !.rockets[ch] = reset], ch, n, m),
                                ch)
               IN  /\ lastOk'
                   /\ rockets'[ch] = after.rockets[ch]
                   /\ n + 1 \notin DOMAIN pendingMessages[ch]
                         => /\ rockets'[ch].Type = m.Type
                            /\ rockets'[ch].Mission = m.Mission
                            /\ rockets'[ch].Speed = m.LaunchSpeed
                            /\ ~rockets'[ch].Exploded
                            /\ rockets'[ch].Reason = "" ]_vars

(* C19 witness: a Launched with another type arrived in order right after   *)
(* the explosion and relaunched the rocket.                                 *)
RelaunchedAfterExplosion ==
    /\ lastOutcome = "applied"
    /\ lastMsg = RocketMessage(MainChannel, 3, 3, MessageTypeRocketLaunched,
                               RelaunchPayload.Type, RelaunchPayload.LaunchSpeed,
                               RelaunchPayload.Mission, 0, "", "")
    /\ Len(applyTrace[MainChannel]) = 3
    /\ applyTrace[MainChannel][2].kind = MessageTypeRocketExploded
    /\ applyTrace[MainChannel][1].kind = MessageTypeRocketLaunched
    /\ GetMessageType(script[1]) = MessageTypeRocketLaunched
    /\ script[1].Type # RelaunchPayload.Type
    /\ rockets[MainChannel].Type = RelaunchPayload.Type
    /\ ~rockets[MainChannel].Exploded

(* the message a call applied under number n: the call's own envelope when  *)
(* it was applied in place, else the entry the drain took from the buffer   *)
AppliedMsg(ch, n) ==
    IF lastOutcome' = "applied" /\ ch = GetChannel(lastMsg') /\ n = GetMessageNumber(lastMsg')
    THEN lastMsg'
    ELSE pendingMessages[ch][n]

(* the positions of the Launched applications a call added to the trace *)
NewLaunches(ch) ==
    { i \in (Len(applyTrace[ch]) + 1)..Len(applyTrace'[ch]) :
        applyTrace'[ch][i].kind = MessageTypeRocketLaunched }

(* a set CreatedAt stays; an unset one becomes the time of the first        *)
(* Launched the call applies, and stays unset when it applies none          *)
CreatedAtStep ==
    \A ch \in Channels :
        IF rockets[ch].CreatedAt # ZeroTime
        THEN rockets'[ch].CreatedAt = rockets[ch].CreatedAt
        ELSE IF NewLaunches(ch) = {}
        THEN rockets'[ch].CreatedAt = ZeroTime
        ELSE LET first == CHOOSE i \in NewLaunches(ch) : \A j \in NewLaunches(ch) : i <= j
             IN  rockets'[ch].CreatedAt
                   = GetMessageTime(AppliedMsg(ch, applyTrace'[ch][first].n))

(* CreatedAt is set exactly when a Launched has been applied *)
CreatedAtSetByLaunch ==
    \A ch \in Channels : (rockets[ch].CreatedAt # ZeroTime) <=> LaunchApplied(ch)

(* C20: CreatedAt is unset until a Launched is applied, then is the         *)
(* messageTime of the first applied Launched, and no later call of any      *)
(* kind changes it.                                                         *)
CreatedAtSetOnce ==
    /\ []CreatedAtSetByLaunch
    /\ [][CreatedAtStep]_vars

(* C20 witness: a second Launched with another messageTime was applied and  *)
(* CreatedAt is still the time of the first.                                *)
RelaunchKeptCreatedAt ==
    /\ lastOutcome = "applied"
    /\ GetMessageType(lastMsg) = MessageTypeRocketLaunched
    /\ GetMessageTime(lastMsg) = 2
    /\ Len(applyTrace[MainChannel]) >= 2
    /\ applyTrace[MainChannel][1].kind = MessageTypeRocketLaunched
    /\ applyTrace[MainChannel][Len(applyTrace[MainChannel])].n = GetMessageNumber(lastMsg)
    /\ rockets[MainChannel].CreatedAt = 1
    /\ rockets[MainChannel].UpdatedAt = 2

(* C21: every existing rocket is exploded exactly when its reason is        *)
(* non-empty.                                                               *)
ExplodedIffReason ==
    \A ch \in Channels :
        GetRocket(Repo, ch).exists
            => (GetRocket(Repo, ch).Exploded <=> GetRocket(Repo, ch).Reason # "")

(* C21 witness: a rocket exploded, with a reason, and was relaunched.       *)
RelaunchClearedReason ==
    /\ Len(applyTrace[MainChannel]) = 3
    /\ applyTrace[MainChannel][2].kind = MessageTypeRocketExploded
    /\ applyTrace[MainChannel][3].kind = MessageTypeRocketLaunched
    /\ ~rockets[MainChannel].Exploded
    /\ rockets[MainChannel].Reason = ""

(* C22: the speed of every rocket is at least 0.                            *)
SpeedNonNegative == \A ch \in Channels : GetRocket(Repo, ch).Speed >= 0

(* C22 witness: a SpeedDecreased larger than the launch speed was applied   *)
(* right after the launch.                                                  *)
DecreasedBelowFloor ==
    /\ Len(applyTrace[MainChannel]) = 2
    /\ applyTrace[MainChannel][1].kind = MessageTypeRocketLaunched
    /\ applyTrace[MainChannel][2].kind = MessageTypeRocketSpeedDecreased
    /\ rockets[MainChannel].Speed = 0

(* C23: from every reachable state, a SpeedDecreased carrying the number    *)
(* right after the cursor of an existing, non-exploded rocket, with by      *)
(* above the current speed, is accepted: the transition leaves speed = 0,   *)
(* the call returns true, the number joins the applied set and the cursor   *)
(* advances to it or beyond (drain).                                        *)
DecreaseFloorsNotRejects ==
    \A m \in Envelopes :
        LET ch == GetChannel(m)
            n == GetMessageNumber(m)
            rocket == GetRocket(Repo, ch)
            tr == processMessageByType(Repo, ch, m)
            res == ProcessMessage(Repo, m)
        IN  (/\ rocket.exists
             /\ ~rocket.Exploded
             /\ GetMessageType(m) = MessageTypeRocketSpeedDecreased
             /\ n = rocket.LastProcessedMessageNumber + 1
             /\ m.By > rocket.Speed)
                => /\ tr.ok
                   /\ tr.R.rockets[ch].Speed = 0
                   /\ res.ok
                   /\ res.outcome = "applied"
                   /\ n \in res.R.processed[ch]
                   /\ res.R.rockets[ch].LastProcessedMessageNumber >= n
                   /\ n + 1 \notin DOMAIN Repo.pending[ch] =>
                         /\ res.R.rockets[ch].Speed = 0
                         /\ res.R.rockets[ch].LastProcessedMessageNumber = n

(* C23 witness: a call applied SpeedDecreased by 3, in order, to a rocket  *)
(* just launched at speed 2; the speed is 0 and the cursor stands at the    *)
(* number of the decrease.                                                  *)
DecreaseAccepted ==
    /\ lastOk
    /\ lastOutcome = "applied"
    /\ GetMessageType(lastMsg) = MessageTypeRocketSpeedDecreased
    /\ lastMsg.By = 3
    /\ GetMessageNumber(lastMsg) = 2
    /\ LastApplied(MainChannel) = 2
    /\ processedMessages[MainChannel] = {1, 2}
    /\ applyTrace[MainChannel][1].kind = MessageTypeRocketLaunched
    /\ rockets[MainChannel].Speed = 0

(* C24: POST /messages answers 422 when the ingest returns false, 400 when  *)
(* the body does not decode or fails validation, and 200 otherwise; GET     *)
(* /rockets/{id} answers 400 for an invalid id, 404 for an id without a     *)
(* rocket, and 200 otherwise.                                               *)
HttpOutcomeMapping ==
    /\ \A body \in PostBodies :
          HandleMessageStatus(Repo, body) =
              IF ~body.decodes \/ ~ValidateRocketMessage(body.message) THEN StatusBadRequest
              ELSE IF ~ProcessMessage(Repo, body.message).ok THEN StatusUnprocessableEntity
              ELSE StatusOK
    /\ \A id \in PathIDs :
          HandleGetRocketStatus(Repo, id) =
              IF ~ValidateRocketID(id) THEN StatusBadRequest
              ELSE IF id \notin Channels \/ ~GetRocket(Repo, id).exists THEN StatusNotFound
              ELSE StatusOK

(* an id no message was ever sent on *)
UnknownID == "unknown-rocket"

(* C25: whatever GetDebugInfo returns for a channel has processedCount =    *)
(* |applied| and lists exactly the pending keys, in ascending order; for an *)
(* unknown id it returns (0, empty list).                                   *)
DebugInfoSorted ==
    /\ \A ch \in Channels :
          \A info \in GetDebugInfoLists(Repo, ch) :
              /\ info.processedCount = Cardinality(processedMessages[ch])
              /\ { info.pendingMessages[i] : i \in DOMAIN info.pendingMessages }
                    = DOMAIN pendingMessages[ch]
              /\ Len(info.pendingMessages) = Cardinality(DOMAIN pendingMessages[ch])
              /\ \A i, j \in DOMAIN info.pendingMessages :
                    i < j => info.pendingMessages[i] < info.pendingMessages[j]
    /\ GetDebugInfoLists(Repo, UnknownID) = {[processedCount |-> 0, pendingMessages |-> <<>>]}

(* the three diagnostics of a HandleDebugRocket response *)
ResponseDiagnostics ==
    [cursor |-> debugInfo.LastProcessedMessage,
     count |-> debugInfo.ProcessedMessageCount,
     pending |-> debugInfo.PendingMessageNumbers]

(* C26: the lastProcessedMessage, processedMessageCount and                 *)
(* pendingMessageNumbers of a HandleDebugRocket response are those of one   *)
(* repository state, one the repository was in while the request was        *)
(* served, also when ProcessMessage calls run between the handler's reads.  *)
ConsistentSnapshot ==
    (Reader \in DOMAIN pc /\ pc[Reader] = "done")
        => \/ ResponseDiagnostics = debugInfo.atGetRocket
           \/ ResponseDiagnostics = debugInfo.atGetDebugInfo

(* the order of two summaries on the chosen field alone: strings compare   *)
(* on their lower-case form, FALSE before TRUE                             *)
FieldBefore(a, b, sortBy) ==
    CASE sortBy \in {"", "id"} -> StringLess(ToLower(a.ID), ToLower(b.ID))
      [] sortBy = "type" -> StringLess(ToLower(a.Type), ToLower(b.Type))
      [] sortBy = "mission" -> StringLess(ToLower(a.Mission), ToLower(b.Mission))
      [] sortBy = "speed" -> a.Speed < b.Speed
      [] sortBy = "updatedAt" -> a.UpdatedAt < b.UpdatedAt
      [] sortBy = "exploded" -> ~a.Exploded /\ b.Exploded

Occurrences(s, x) == Cardinality({i \in 1..Len(s) : s[i] = x})

IsPermutation(s, t) ==
    /\ Len(s) = Len(t)
    /\ \A x \in Summaries : Occurrences(s, x) = Occurrences(t, x)

(* C27: SortRockets returns a permutation of its input in which no element *)
(* stands before one that precedes it on the chosen field (id when sortBy  *)
(* is empty; the reverse when sortOrder is "desc"; non-exploded before     *)
(* exploded for "exploded" ascending), and the caller's slice is as it was *)
SortRocketsContract ==
    sortCall.called =>
        /\ IsPermutation(sortCall.sortedRockets, sortCall.rockets)
        /\ \A i, j \in 1..Len(sortCall.sortedRockets) :
              i < j =>
                 IF sortCall.sortOrder = "desc"
                 THEN ~FieldBefore(sortCall.sortedRockets[i], sortCall.sortedRockets[j],
                                   sortCall.sortBy)
                 ELSE ~FieldBefore(sortCall.sortedRockets[j], sortCall.sortedRockets[i],
                                   sortCall.sortBy)
        /\ sortCall.after = sortCall.rockets

(* a descending sort by speed moved elements: the result differs from the  *)
(* input, which held three rockets of three speeds                         *)
SortedDescending ==
    /\ sortCall.called
    /\ sortCall.sortOrder = "desc"
    /\ sortCall.sortBy = "speed"
    /\ Len(sortCall.rockets) = 3
    /\ Cardinality({sortCall.rockets[i].Speed : i \in 1..3}) = 3
    /\ sortCall.sortedRockets # sortCall.rockets

(* C28: a ProcessMessage call that returns false leaves the repository as  *)
(* it was: no rocket created, the rocket's fields and cursor, the applied  *)
(* set and the pending buffer unchanged                                    *)
RejectLeavesNoTrace ==
    [][(steps' = steps + 1 /\ ~lastOk')
          => UNCHANGED <<rockets, processedMessages, pendingMessages>>]_vars

(* the numbers a call applied on a channel, and whether an Exploded was     *)
(* among them                                                               *)
NewlyApplied(ch) ==
    { applyTrace'[ch][i].n : i \in (Len(applyTrace[ch]) + 1)..Len(applyTrace'[ch]) }

ExplodedNewlyApplied(ch) ==
    \E i \in (Len(applyTrace[ch]) + 1)..Len(applyTrace'[ch]) :
        applyTrace'[ch][i].kind = MessageTypeRocketExploded

(* C29: a call that applied an Exploded, in place or in its drain, leaves   *)
(* no entry of another kind than Launched in the channel's buffer, and      *)
(* every Launched that was buffered is still there unless the same call     *)
(* applied it                                                               *)
PostExplosionSweep ==
    [][\A ch \in Channels :
          ExplodedNewlyApplied(ch) =>
             /\ \A n \in DOMAIN pendingMessages'[ch] :
                   GetMessageType(pendingMessages'[ch][n]) = MessageTypeRocketLaunched
             /\ \A n \in DOMAIN pendingMessages[ch] :
                   GetMessageType(pendingMessages[ch][n]) = MessageTypeRocketLaunched
                      => \/ n \in NewlyApplied(ch)
                         \/ /\ n \in DOMAIN pendingMessages'[ch]
                            /\ pendingMessages'[ch][n] = pendingMessages[ch][n]]_vars

(* the latest call applied its Exploded in place; a Launched that was       *)
(* buffered survived the sweep, for the drain of that call applied it, and  *)
(* a number buffered beyond it is gone without having been applied          *)
SweptAroundLaunched ==
    /\ lastOutcome = "applied"
    /\ GetMessageType(lastMsg) = MessageTypeRocketExploded
    /\ applyTrace[MainChannel] # <<>>
    /\ LET last == applyTrace[MainChannel][Len(applyTrace[MainChannel])]
       IN  /\ last.kind = MessageTypeRocketLaunched
           /\ last.n > GetMessageNumber(lastMsg)
           /\ \E k \in accepted[MainChannel] :
                 /\ k > last.n
                 /\ k \notin processedMessages[MainChannel]
                 /\ k \notin DOMAIN pendingMessages[MainChannel]

(* the entry buffered under number n before a call was still in the buffer  *)
(* when that call's drain could look at it: no explosion swept it           *)
SurvivedSweep(ch, n) ==
    \/ GetMessageType(pendingMessages[ch][n]) = MessageTypeRocketLaunched
    \/ ~ExplodedNewlyApplied(ch)

(* the call applied its envelope and its drain came to a buffered entry at  *)
(* the number after the final cursor, which the transition rejects          *)
DrainMetReject(ch) ==
    /\ steps' = steps + 1
    /\ lastOutcome' = "applied"
    /\ ch = GetChannel(lastMsg')
    /\ rockets'[ch].LastProcessedMessageNumber + 1 \in DOMAIN pendingMessages[ch]
    /\ SurvivedSweep(ch, rockets'[ch].LastProcessedMessageNumber + 1)
    /\ ~processMessageByType(
            Repo', ch, pendingMessages[ch][rockets'[ch].LastProcessedMessageNumber + 1]).ok

(* C30: when the drain finds at lastApplied+1 a buffered message that the   *)
(* transition rejects, the message leaves the buffer, its number is not     *)
(* applied, the higher buffered numbers stay as they were and the call      *)
(* returns true                                                             *)
DrainHaltsOnReject ==
    [][\A ch \in Channels :
          DrainMetReject(ch) =>
             LET next == rockets'[ch].LastProcessedMessageNumber + 1
             IN  /\ next \notin DOMAIN pendingMessages'[ch]
                 /\ next \notin processedMessages'[ch]
                 /\ processedMessages'[ch] = processedMessages[ch] \cup NewlyApplied(ch)
                 /\ \A n \in DOMAIN pendingMessages[ch] :
                       (n > next /\ SurvivedSweep(ch, n))
                          => /\ n \in DOMAIN pendingMessages'[ch]
                             /\ pendingMessages'[ch][n] = pendingMessages[ch][n]
                 /\ lastOk']_vars

(* the latest call applied up to the cursor; the next number had been       *)
(* buffered and is gone without having been applied, no explosion having    *)
(* swept it, and the number after it is still buffered                      *)
DrainHalted ==
    /\ lastOutcome = "applied"
    /\ lastOk
    /\ \A i \in 1..Len(applyTrace[MainChannel]) :
          applyTrace[MainChannel][i].kind # MessageTypeRocketExploded
    /\ LET next == LastApplied(MainChannel) + 1
       IN  /\ next \in accepted[MainChannel]
           /\ next \notin processedMessages[MainChannel]
           /\ next \notin DOMAIN pendingMessages[MainChannel]
           /\ next + 1 \in DOMAIN pendingMessages[MainChannel]

(* the drain of an earlier call halted at the slot after the cursor: the    *)
(* number had been buffered, it is neither applied nor pending, and no      *)
(* explosion was ever applied that could have swept it                      *)
HaltedSlot(ch) ==
    /\ rockets[ch].exists
    /\ LastApplied(ch) + 1 \in accepted[ch]
    /\ LastApplied(ch) + 1 \notin processedMessages[ch]
    /\ LastApplied(ch) + 1 \notin DOMAIN pendingMessages[ch]
    /\ \A i \in 1..Len(applyTrace[ch]) : applyTrace[ch][i].kind # MessageTypeRocketExploded

(* C31: once the drain has halted on a rejected message at number n, a      *)
(* later message of the channel with a number after n is answered false     *)
HaltedSlotRejectsFollowers ==
    [][\A ch \in Channels :
          (/\ HaltedSlot(ch)
           /\ steps' = steps + 1
           /\ GetChannel(lastMsg') = ch
           /\ GetMessageNumber(lastMsg') > LastApplied(ch) + 1)
             => ~lastOk']_vars

(* C32: while the rocket exists and the slot n = lastApplied+1 is open, a   *)
(* call with a number beyond n is buffered and answered true without the    *)
(* cursor or the applied set moving, and the cursor moves only in a call    *)
(* that carries number n and is answered true; so after a reject at slot n  *)
(* the cursor stays at n-1 until an accepted envelope numbered n arrives    *)
PermanentGap ==
    [][\A ch \in Channels :
          (rockets[ch].exists /\ steps' = steps + 1 /\ GetChannel(lastMsg') = ch)
             => /\ GetMessageNumber(lastMsg') > LastApplied(ch) + 1
                   => /\ lastOk'
                      /\ lastOutcome' = "buffered"
                      /\ GetMessageNumber(lastMsg') \in DOMAIN pendingMessages'[ch]
                      /\ pendingMessages'[ch][GetMessageNumber(lastMsg')] = lastMsg'
                      /\ rockets'[ch].LastProcessedMessageNumber = LastApplied(ch)
                      /\ processedMessages'[ch] = processedMessages[ch]
                /\ rockets'[ch].LastProcessedMessageNumber # LastApplied(ch)
                   => /\ GetMessageNumber(lastMsg') = LastApplied(ch) + 1
                      /\ lastOk'
                /\ ~lastOk'
                   => rockets'[ch].LastProcessedMessageNumber = LastApplied(ch)]_vars

(* the slot after the cursor was rejected by an earlier drain, and the      *)
(* latest call, carrying a later number, was buffered                       *)
BufferedBehindGap ==
    /\ HaltedSlot(MainChannel)
    /\ lastOk
    /\ lastOutcome = "buffered"
    /\ GetMessageNumber(lastMsg) > LastApplied(MainChannel) + 1
    /\ GetMessageNumber(lastMsg) \in DOMAIN pendingMessages[MainChannel]

(* the fields of models.RocketState other than those in `changed` agree *)
SameExcept(old, new, changed) ==
    \A f \in (DOMAIN old) \ changed : new[f] = old[f]

(* C33: from every reachable state and for every payload (the transition   *)
(* reads neither number nor time), the transition on an accepted            *)
(* SpeedIncreased sets speed to speed + by, on an accepted SpeedDecreased   *)
(* changes speed only, on an accepted MissionChanged mission only, on an    *)
(* accepted Exploded exploded and reason only; id, type and createdAt stay  *)
NonLaunchedFrame ==
    \A m \in { Envelope(MainChannel, 1, 1, p) : p \in Payloads } :
        LET ch == GetChannel(m)
            kind == GetMessageType(m)
            old == GetRocket(Repo, ch)
            tr == processMessageByType(Repo, ch, m)
            new == tr.R.rockets[ch]
        IN  (old.exists /\ kind # MessageTypeRocketLaunched /\ tr.ok)
               => /\ new.ID = old.ID /\ new.Type = old.Type /\ new.CreatedAt = old.CreatedAt
                  /\ kind = MessageTypeRocketSpeedIncreased
                        => new.Speed = old.Speed + m.By /\ SameExcept(old, new, {"Speed"})
                  /\ kind = MessageTypeRocketSpeedDecreased
                        => SameExcept(old, new, {"Speed"})
                  /\ kind = MessageTypeRocketMissionChanged
                        => new.Mission = m.NewMission /\ SameExcept(old, new, {"Mission"})
                  /\ kind = MessageTypeRocketExploded
                        => SameExcept(old, new, {"Exploded", "Reason"})

(* the latest call applied a MissionChanged in place, with nothing to       *)
(* drain, on a launched rocket, whose mission is now the new one            *)
MissionChangedApplied ==
    /\ lastOutcome = "applied"
    /\ GetMessageType(lastMsg) = MessageTypeRocketMissionChanged
    /\ LastApplied(MainChannel) = GetMessageNumber(lastMsg)
    /\ rockets[MainChannel].Mission = lastMsg.NewMission
    /\ rockets[MainChannel].Type # ""
    /\ rockets[MainChannel].CreatedAt # ZeroTime

(* C34: a call that applied nothing on a channel (buffered, duplicate,      *)
(* rejected, other channel) leaves the rocket's updatedAt as it was; a call *)
(* that applied messages leaves the cursor at the last number it applied    *)
(* and updatedAt at the messageTime of the envelope applied under it        *)
UpdatedAtTracksCursor ==
    [][\A ch \in Channels :
          IF NewlyApplied(ch) = {}
          THEN rockets'[ch].UpdatedAt = rockets[ch].UpdatedAt
          ELSE /\ rockets'[ch].LastProcessedMessageNumber \in NewlyApplied(ch)
               /\ \A n \in NewlyApplied(ch) : n <= rockets'[ch].LastProcessedMessageNumber
               /\ rockets'[ch].UpdatedAt =
                     GetMessageTime(AppliedMsg(ch, rockets'[ch].LastProcessedMessageNumber))]_vars

(* the latest call was buffered although its envelope carries another time  *)
(* than the one applied under the cursor, whose time updatedAt still shows  *)
BufferedKeptUpdatedAt ==
    /\ lastOutcome = "buffered"
    /\ LastApplied(MainChannel) >= 1
    /\ rockets[MainChannel].UpdatedAt # ZeroTime
    /\ GetMessageTime(lastMsg) # rockets[MainChannel].UpdatedAt

(* C36: the applied set of every channel is exactly 1..lastApplied, the     *)
(* processedCount of the diagnostics equals lastApplied, and no call with   *)
(* a positive number has taken the branch of ProcessMessage for a number    *)
(* older than expected                                                      *)
AppliedIsCursorPrefix ==
    /\ \A ch \in Channels :
          /\ processedMessages[ch] = 1..LastApplied(ch)
          /\ GetDebugInfo(Repo, ch).processedCount = LastApplied(ch)
    /\ lastOutcome # "late"

(* the latest call carried a number below the cursor of a channel that has  *)
(* applied two messages or more, and was absorbed as a duplicate            *)
OlderNumberWasDuplicate ==
    /\ LastApplied(MainChannel) >= 2
    /\ GetMessageNumber(lastMsg) < LastApplied(MainChannel)
    /\ GetMessageNumber(lastMsg) >= 1
    /\ lastOutcome = "duplicate"
    /\ lastOk

(* C37: every call with an envelope that passes ValidateRocketMessage is    *)
(* answered false exactly when, before the call, its number is not applied  *)
(* and is lastApplied+1, the rocket exists and is exploded, and the kind is *)
(* not Launched; in every other case it is answered true                    *)
FalseOnlyAtTerminalGate ==
    [][(steps' = steps + 1 /\ ValidateRocketMessage(lastMsg'))
          => (~lastOk'
                <=> /\ GetMessageNumber(lastMsg') \notin processedMessages[GetChannel(lastMsg')]
                    /\ GetMessageNumber(lastMsg') = LastApplied(GetChannel(lastMsg')) + 1
                    /\ rockets[GetChannel(lastMsg')].exists
                    /\ rockets[GetChannel(lastMsg')].Exploded
                    /\ GetMessageType(lastMsg') # MessageTypeRocketLaunched)]_vars

(* the latest call was answered false: its envelope met an exploded rocket  *)
(* at the slot after the cursor, and the repository still shows that state  *)
AnsweredFalseAtGate ==
    /\ ~lastOk
    /\ lastOutcome = "gate"
    /\ ValidateRocketMessage(lastMsg)
    /\ rockets[MainChannel].Exploded
    /\ GetMessageNumber(lastMsg) = LastApplied(MainChannel) + 1
    /\ GetMessageType(lastMsg) # MessageTypeRocketLaunched

(* C38: a rocket that has applied a message has been launched: with         *)
(* lastApplied >= 1 its type and mission are non-empty and createdAt is set *)
AppliedImpliesLaunched ==
    \A ch \in Channels :
        (rockets[ch].exists /\ LastApplied(ch) >= 1)
            => /\ rockets[ch].Type # ""
               /\ rockets[ch].Mission # ""
               /\ rockets[ch].CreatedAt # ZeroTime

(* C39: after every call, no channel whose rocket exists has the number     *)
(* lastApplied+1 in its pending buffer                                      *)
NoHeadOfLineWaiting ==
    \A ch \in Channels :
        rockets[ch].exists => LastApplied(ch) + 1 \notin DOMAIN pendingMessages[ch]

(* the repositories at the top of the iterations of a drain that starts     *)
(* from R                                                                   *)
RECURSIVE DrainTops(_, _)
DrainTops(R, id) ==
    {R} \cup (IF DrainIteration(R, id).continue
              THEN DrainTops(DrainIteration(R, id).R, id) ELSE {})

(* the repository the last iteration of a drain from R leaves *)
RECURSIVE DrainEnd(_, _)
DrainEnd(R, id) ==
    IF DrainIteration(R, id).continue
    THEN DrainEnd(DrainIteration(R, id).R, id) ELSE DrainIteration(R, id).R

(* the in-place apply followed by the iterations is the whole call *)
IterationsMakeTheCall ==
    \A m \in RawEnvelopes :
        ReachesApply(Repo, m) =>
            /\ ProcessMessage(Repo, m).ok = ApplyInPlace(Repo, m).ok
            /\ ProcessMessage(Repo, m).R =
                  IF ApplyInPlace(Repo, m).ok
                  THEN DrainEnd(ApplyInPlace(Repo, m).R, GetChannel(m))
                  ELSE ApplyInPlace(Repo, m).R

(* C40: no drain has taken the skip branch, and in the drain of every call  *)
(* that can come next, at the top of each iteration an exploded rocket has  *)
(* nothing but Launched entries in its pending buffer                       *)
SkipBranchNeverTaken ==
    /\ \A ch \in Channels : skipped[ch] = {}
    /\ \A m \in RawEnvelopes :
          (ReachesApply(Repo, m) /\ ApplyInPlace(Repo, m).ok) =>
              \A T \in DrainTops(ApplyInPlace(Repo, m).R, GetChannel(m)) :
                  T.rockets[GetChannel(m)].Exploded =>
                      \A n \in DOMAIN T.pending[GetChannel(m)] :
                          GetMessageType(T.pending[GetChannel(m)][n])
                              = MessageTypeRocketLaunched

(* the latest call applied an Exploded in place and its drain, starting on  *)
(* the exploded rocket, applied the Launched buffered at the next number    *)
DrainedOnExplodedRocket ==
    /\ lastOutcome = "applied"
    /\ GetMessageType(lastMsg) = MessageTypeRocketExploded
    /\ Len(applyTrace[MainChannel]) >= 2
    /\ LET last == applyTrace[MainChannel][Len(applyTrace[MainChannel])]
       IN  /\ last.kind = MessageTypeRocketLaunched
           /\ last.n = GetMessageNumber(lastMsg) + 1
    /\ skipped[MainChannel] = {}
    /\ ~rockets[MainChannel].Exploded

(* C35: what a reader got is what the repository held between two ingests, *)
(* before or after each whole ProcessMessage call with its drain; and every *)
(* state a reader can get in is such a state: when no writer holds the      *)
(* lock, the repository is the result of the whole latest call              *)
ReadersSeeWholeIngests ==
    /\ observed.read => observed.view \in observed.between
    /\ (mutex = 0 /\ steps > 1) => Repo = ProcessMessage(observed.atLock, lastMsg).R
    /\ mutex = 0 => View(Repo) \in observed.between

(* the reader looked before the writer of #2, which ran last, applied its   *)
(* message and drained every buffered number behind it                      *)
ReadBeforeLongDrain ==
    /\ observed.read
    /\ observed.view.rocket.LastProcessedMessageNumber = 1
    /\ Cardinality(observed.view.pendingMessages) >= 2
    /\ GetMessageNumber(lastMsg) = 2
    /\ mutex = 0
    /\ LastApplied(MainChannel) = NumWriters + 1
    /\ DOMAIN pendingMessages[MainChannel] = {}

====
